---- MODULE Spec2Model ----
(***************************************************************************)
(* Model of the backend of heypico.ai-fullstack-test: the sliding-window   *)
(* rate limiter (services/rate_limiter.py), the token store                *)
(* (services/auth_service.py, configs/envs.py), the request handlers of    *)
(* main.py, and the services they call: intent detection and extraction    *)
(* (services/llm_service.py), geocoding (services/geocoding_service.py)    *)
(* and place search (services/places_service.py, services/maps_service.py).*)
(*                                                                         *)
(* Strings are sequences of symbols; a symbol stands for an indivisible    *)
(* piece of text ("Bearer", one space, one token body, ...).  Instants are *)
(* natural numbers (clock ticks) and a timedelta is a number of ticks.     *)
(***************************************************************************)
EXTENDS Integers, Sequences, FiniteSets, TLC

\* ------------------------------------------------------------------ bounds
MaxTime == 3
MaxLimit == 2
MaxWindow == 2
MaxCalls == 3
MaxPlaces == 1
MaxResults == 3

\* ----------------------------------------------------------------- strings
None == <<"None">>
EmptyStr == << >>
SP == " "

\* main.py:23  BACKEND_BEARER = os.getenv("BACKEND_BEARER", "change_me")
BACKEND_BEARER == <<"change_me">>
\* two values uuid.uuid4().hex can return
Uuid1 == <<"uuid1">>
Uuid2 == <<"uuid2">>
UuidHex == {Uuid1, Uuid2}
TokenStrs == UuidHex \cup {BACKEND_BEARER}

\* the text after the first occurrence of the symbol sep: str.split(sep, 1)[1]
AfterFirst(s, sep) ==
  LET i == CHOOSE k \in 1..Len(s) : s[k] = sep /\ \A j \in 1..(k - 1) : s[j] # sep
  IN  SubSeq(s, i + 1, Len(s))

\* str.startswith
StartsWith(s, prefix) ==
  Len(s) >= Len(prefix) /\ SubSeq(s, 1, Len(prefix)) = prefix

\* truth value of an Optional[str]: None and "" are false
Truthy(s) == s # None /\ s # EmptyStr

\* the header value f"Bearer {tok}"
Bearer(tok) == <<"Bearer", SP>> \o tok

\* configs/envs.py: the attributes of the Config instance, with their defaults
config ==
  [FRONTEND_ORIGIN |-> <<"http://localhost:5173">>,
   BACKEND_BEARER |-> <<"change_me_strong_token">>,
   USE_LOCAL_LLM |-> <<"false">>,
   LOCAL_LLM_URL |-> <<"http://host.docker.internal:11434/v1/chat/completions">>,
   CLOUD_LLM_URL |-> <<"https://api.openai.com/v1/chat/completions">>,
   CLOUD_LLM_API_KEY |-> None,
   LOCAL_MODEL_NAME |-> <<"phi3:3.8b">>,
   CLOUD_MODEL_NAME |-> <<"gpt-3.5-turbo">>,
   LLM_TEMPERATURE |-> <<"0.7">>,
   LLM_MAX_TOKENS |-> <<"2048">>,
   LLM_TIMEOUT |-> <<"30.0">>,
   SYSTEM_PROMPT |-> <<"You are a helpful and friendly AI assistant.">>]

\* credentials a client may send to authenticate
Usernames == {<<"admin">>, <<"guest">>}
Passwords == {<<"secret">>, <<"wrong">>}

\* Authorization header values a client may send
Headers ==
  {None, EmptyStr, <<"Bearer">>, <<"Bearer", SP>>}
    \cup {Bearer(tok) : tok \in TokenStrs}
    \cup {<<"Basic", SP>> \o tok : tok \in TokenStrs}
    \cup {<<"bearer", SP>> \o tok : tok \in TokenStrs}
    \cup {<<"Bearer", SP, SP>> \o tok : tok \in TokenStrs}
    \cup TokenStrs

\* llm_service.py:9  USE_LOCAL_LLM = False
USE_LOCAL_LLM == FALSE

\* what a call to an external provider can end with instead of a reply
Failed == <<"<failed>">>

\* llm_service.py:437  query = user_message.strip()[:50]
QueryMax == 50
\* llm_service.py:443  search_data.get("limit", 10)
DefaultLimit == 10
\* llm_service.py:430 and places_service.py:77  the radius when none is given
DefaultRadius == 8000

\* a message of QueryMax + 1 one-character symbols
LongMessage == [i \in 1..(QueryMax + 1) |-> "x"]

\* messages a client may send: a search request, small talk, a word that
\* holds a keyword, blanks only, and one longer than QueryMax
Messages ==
  {<<"Cari", SP, "kafe">>, <<"halo">>, <<"Kafetaria">>, <<SP, SP>>, LongMessage}

\* a message that refers to the places of the previous answer
FollowUp == <<"mana", SP, "yang", SP, "terbaik">>

\* the messages sent to the endpoints
ApiMessages == {<<"Cari", SP, "kafe">>, <<"halo">>}

\* the messages sent to /v1/chat/search
ChatMessages == ApiMessages \cup {FollowUp}

\* ChatRequest.location_context values a client may send
LocationContexts == {None, <<"Jakarta">>}

\* texts the classification call may return
ClassifyReplies == {<<"YES">>, <<SP, "yes">>, <<SP, "no">>, <<"NO", SP, "yes">>}

\* how a call of the classification provider can end
ClassifyOutcomes ==
  {"ok", "status_error", "timeout", "transport_error", "malformed_body"}

\* str.lower and str.upper, symbol by symbol
LowerSym(c) ==
  CASE c = "Cari" -> "cari" [] c = "YES" -> "yes" [] c = "NO" -> "no"
    [] c = "Kafetaria" -> "kafetaria" [] OTHER -> c
UpperSym(c) ==
  CASE c = "Cari" -> "CARI" [] c = "cari" -> "CARI" [] c = "kafe" -> "KAFE"
    [] c = "halo" -> "HALO" [] c = "yes" -> "YES" [] c = "no" -> "NO"
    [] c = "Kafetaria" -> "KAFETARIA" [] c = "kafetaria" -> "KAFETARIA"
    [] OTHER -> c
Lower(s) == [i \in 1..Len(s) |-> LowerSym(s[i])]
Upper(s) == [i \in 1..Len(s) |-> UpperSym(s[i])]

\* str.strip: leading and trailing blanks removed
RECURSIVE LStrip(_)
LStrip(s) == IF s # << >> /\ Head(s) = SP THEN LStrip(Tail(s)) ELSE s
RECURSIVE RStrip(_)
RStrip(s) ==
  IF s # << >> /\ s[Len(s)] = SP THEN RStrip(SubSeq(s, 1, Len(s) - 1)) ELSE s
Strip(s) == RStrip(LStrip(s))

\* the slice s[:n]; a symbol counts as one character
Take(s, n) == SubSeq(s, 1, IF Len(s) < n THEN Len(s) ELSE n)

\* str(v) inside an f-string: None is rendered as the text None
Str(v) == IF v = None THEN <<"None">> ELSE v

\* llm_service.py lines 55 and 154
simple_keywords ==
  {"cari", "dimana", "tempat", "restoran", "kafe", "hotel", "toko", "mall"}

VARIABLES
  openai_api_key,   \* llm_service.py:11 OPENAI_API_KEY, read from the environment
  req,              \* the HTTP request main.py is handling
  served,           \* arrival instants of the requests let into a handler
  tokens,           \* AuthService._tokens : token -> instant of creation
  limit,            \* RateLimiter.limit
  window,           \* RateLimiter.window, in ticks
  now,              \* the clock read by datetime.utcnow()
  token_requests,   \* RateLimiter._token_requests : token -> list of instants
  task,             \* the invocations of RateLimiter.middleware's wrapper
  calls,            \* history of check_rate_limit calls
  last              \* the operation that ran last, with its outcome

vars == <<openai_api_key, req, served, tokens, limit, window, now,
          token_requests, task, calls, last>>

\* the requests that can be in flight at once
Tasks == {"r1", "r2"}
\* the strings callers pass to the limiter as tokens
LimiterTokens == {BACKEND_BEARER, Uuid1}

IdleTask == [pc |-> "idle", call |-> 0]

\* the "search_request" object of a reply; an Optional[str] is None when the
\* key is absent or null, any other optional value is << >> then
BaseData == [query |-> <<"kafe">>, limit |-> << >>, min_rating |-> << >>,
             location_name |-> None, sort_by |-> None, location_bias |-> << >>]

\* no reply of the extraction call yet
NoReply == [kind |-> "none", data |-> BaseData]

\* `req`: pc is the stage the handler is at, stages the external calls it has
\* issued, status the HTTP status answered (0 while running), kind what the
\* answer holds; quota tells whether `limit` requests of its token had been
\* served within the window when it arrived, issued the tokens stored then;
\* ctx is the request's location_context; xreply is what the extraction
\* call ended with and query the Search Request's query;
\* loc_name and bias are the Search Request's location_name and
\* location_bias, geo_out how the geocoding call ended and geo its result,
\* sent the locationBias of the provider request, places_out how the place
\* search call ended, n the number of places found, detail the `detail` of
\* an error response, response_message that of a chat response, prior the
\* number of places of the last search answered before this request (0 when
\* there is none), mode the branch taken at main.py line 76 ("search" or
\* "chat", "none" before it)
IdleReq == [pc |-> "idle", endpoint |-> "none", header |-> None,
            msg |-> EmptyStr, ctx |-> None, quota |-> FALSE, issued |-> {},
            stages |-> << >>, xreply |-> NoReply, query |-> EmptyStr,
            loc_name |-> None, bias |-> << >>, geo_out |-> "none",
            geo |-> << >>, sent |-> << >>, places_out |-> "none", n |-> 0,
            status |-> 0, kind |-> "none", detail |-> EmptyStr,
            response_message |-> EmptyStr, prior |-> 0, mode |-> "none"]

\* `last`: op names the operation, arg its argument, raised the exception it
\* ended with ("none" when it returned), status the HTTP status of that
\* exception or response (0 when there is none), ret the value returned,
\* pre the tokens stored before it ran.  For a call of LLMService or
\* PlacesService arg holds the arguments and what the provider answered and
\* ret the value returned, each as a one-element tuple; for
\* detect_search_intent by is how the provider call ended and pre holds the
\* provider's text
NoOp == [op |-> "none", by |-> "none", ok |-> TRUE, raised |-> "none",
         status |-> 0, arg |-> EmptyStr, ret |-> None, pre |-> {}]

\* how many instants of the list s lie in the interval from lo to hi, with
\* lo itself counted only when closed
CountIn(s, lo, hi, closed) ==
  Cardinality({i \in 1..Len(s) :
     /\ s[i] <= hi
     /\ IF closed THEN lo <= s[i] ELSE lo < s[i]})

\* ------------------------------------------------------------ rate limiter
\* dict lookup after lines 37-38 have initialised a missing key to []
Stored(tok) ==
  IF tok \in DOMAIN token_requests THEN token_requests[tok] ELSE << >>

\* lines 37-38: if token not in self._token_requests: ... = []
Initialised(tok) ==
  IF tok \in DOMAIN token_requests THEN token_requests
  ELSE token_requests @@ (tok :> << >>)

IsRecentClosed(t, nowv) == nowv - t <= window
\* line 41: now - t < self.window
IsRecent(t, nowv) == nowv - t < window

\* a fixed window: only the instants of the current window-long bucket count
Recent_FixedBucket(tok, nowv) ==
  SelectSeq(Stored(tok), LAMBDA t : t \div window = nowv \div window)

\* line 41: recent = [t for t in self._token_requests[token] if ...]
Recent(tok, nowv) == SelectSeq(Stored(tok), LAMBDA t : IsRecent(t, nowv))

LimitExceededOffByOne(recent) == Len(recent) > limit
\* line 44: len(recent) >= self.limit
LimitExceeded(recent) == Len(recent) >= limit

\* line 44 negated: the call is admitted
Admits(tok) == ~LimitExceeded(Recent(tok, now))

\* lines 50-52 without the pruning of line 41
check_rate_limit_NoPrune(tok) ==
  /\ token_requests' =
       IF Admits(tok)
       THEN [Initialised(tok) EXCEPT ![tok] = Append(Stored(tok), now)]
       ELSE Initialised(tok)
  /\ calls' = Append(calls, [tok |-> tok, t |-> now, ok |-> Admits(tok),
                             before |-> Stored(tok)])

\* lines 34-48 without lines 50-52: an admitted call is not recorded
check_rate_limit_NoRecord(tok) ==
  /\ token_requests' = Initialised(tok)
  /\ calls' = Append(calls, [tok |-> tok, t |-> now, ok |-> Admits(tok),
                             before |-> Stored(tok)])

\* lines 51-52 run for a rejected call too
check_rate_limit_RecordRejected(tok) ==
  /\ token_requests' =
       [Initialised(tok) EXCEPT ![tok] = Append(Recent(tok, now), now)]
  /\ calls' = Append(calls, [tok |-> tok, t |-> now, ok |-> Admits(tok),
                             before |-> Stored(tok)])

\* line 52 replacing the whole dictionary by the caller's entry
check_rate_limit_ReplaceDict(tok) ==
  /\ token_requests' =
       IF Admits(tok) THEN (tok :> Append(Recent(tok, now), now))
       ELSE Initialised(tok)
  /\ calls' = Append(calls, [tok |-> tok, t |-> now, ok |-> Admits(tok),
                             before |-> Stored(tok)])

\* lines 34-52: the whole call; it contains no await, so it runs as one step.
check_rate_limit(tok) ==
  LET recent == Recent(tok, now)
      ok == Admits(tok)
  IN  /\ token_requests' =
           IF ok THEN [Initialised(tok) EXCEPT ![tok] = Append(recent, now)]
           ELSE Initialised(tok)
      /\ calls' = Append(calls, [tok |-> tok, t |-> now, ok |-> ok,
                                 before |-> Stored(tok)])

\* ------------------------------------------------------------------ actions
\* time passes between two reads of datetime.utcnow()
Tick ==
  /\ now < MaxTime
  /\ now' = now + 1
  /\ UNCHANGED <<openai_api_key, req, served, tokens, limit, window, token_requests, task, calls, last>>

\* a direct call of RateLimiter.check_rate_limit
CheckRateLimit ==
  \E tok \in LimiterTokens :
    /\ Len(calls) < MaxCalls
    /\ check_rate_limit(tok)
    /\ UNCHANGED <<openai_api_key, req, served, tokens, limit, window, now, task, last>>

\* wrapper, lines 68-71: token_extractor and check_rate_limit run with no
\* await between them; a rejected call raises 429 and func never starts.
WrapperCall ==
  \E r \in Tasks, tok \in LimiterTokens :
    /\ task[r].pc = "idle"
    /\ Len(calls) < MaxCalls
    /\ check_rate_limit(tok)
    /\ task' = [task EXCEPT ![r] =
         IF Admits(tok)
         THEN [pc |-> "handler", call |-> Len(calls) + 1]
         ELSE IdleTask]
    /\ UNCHANGED <<openai_api_key, req, served, tokens, limit, window, now, last>>

\* the list without its last occurrence of t
WithoutLast(list, t) ==
  LET at == {i \in 1..Len(list) : list[i] = t}
  IN  IF at = {} THEN list
      ELSE LET k == CHOOSE i \in at : \A j \in at : j <= i
           IN  SubSeq(list, 1, k - 1) \o SubSeq(list, k + 1, Len(list))

\* a wrapper that gives the slot back when func raises
HandlerReturn_RefundOnFailure ==
  \E r \in Tasks, ok \in BOOLEAN :
    /\ task[r].pc = "handler"
    /\ task' = [task EXCEPT ![r] = IdleTask]
    /\ last' = [NoOp EXCEPT !.op = "handler", !.by = r, !.ok = ok]
    /\ token_requests' =
         IF ok THEN token_requests
         ELSE LET c == calls[task[r].call]
              IN  [token_requests EXCEPT ![c.tok] = WithoutLast(@, c.t)]
    /\ UNCHANGED <<openai_api_key, req, served, tokens, limit, window, now, calls>>

\* wrapper, line 74: `await func(...)` completes, by returning or by raising
HandlerReturn ==
  \E r \in Tasks, ok \in BOOLEAN :
    /\ task[r].pc = "handler"
    /\ task' = [task EXCEPT ![r] = IdleTask]
    /\ last' = [NoOp EXCEPT !.op = "handler", !.by = r, !.ok = ok]
    /\ UNCHANGED <<openai_api_key, req, served, tokens, limit, window, now, token_requests, calls>>

\* ------------------------------------------------------------ token store
\* auth_service.py line 25: the outcome of
\*   username == config.DUMMY_BYPASS_UNAME and password == config.DUMMY_BYPASS_PASSWORD
\* reading an attribute Config does not have raises AttributeError; `and`
\* reads the second attribute only when the first comparison is true
CredentialsCheck(username, password) ==
  IF "DUMMY_BYPASS_UNAME" \notin DOMAIN config THEN "AttributeError"
  ELSE IF username # config["DUMMY_BYPASS_UNAME"] THEN "mismatch"
  ELSE IF "DUMMY_BYPASS_PASSWORD" \notin DOMAIN config THEN "AttributeError"
  ELSE IF password = config["DUMMY_BYPASS_PASSWORD"] THEN "match"
  ELSE "mismatch"

validate_token_AcceptAll(token) == TRUE
\* lines 31-36: token in cls._tokens
validate_token(token) == token \in DOMAIN tokens

\* lines 38-50: the token returned, or None when 401 is raised
extract_token_from_header(authorization) ==
  IF ~Truthy(authorization) \/ ~StartsWith(authorization, <<"Bearer", SP>>)
  THEN None
  ELSE IF ~validate_token(AfterFirst(authorization, SP)) THEN None
  ELSE AfterFirst(authorization, SP)

RevokeRaisesIfAbsent(token) == IF token \in DOMAIN tokens THEN "none" ELSE "KeyError"
\* lines 57-58: `del` runs only under `if token in cls._tokens`, so nothing raises
RevokeRaises(token) == "none"

\* lines 57-58: the store after revoke_token(token)
Revoked(token) == [t \in (DOMAIN tokens) \ {token} |-> tokens[t]]

\* AuthService.authenticate, lines 19-29
Authenticate ==
  \E username \in Usernames, password \in Passwords :
    LET c == CredentialsCheck(username, password)
    IN  /\ IF c = "match"
           THEN \E tok \in UuidHex \ DOMAIN tokens :
                  /\ tokens' = tokens @@ (tok :> now)
                  /\ last' = [NoOp EXCEPT !.op = "authenticate", !.arg = username,
                                          !.ret = tok, !.pre = DOMAIN tokens]
           ELSE /\ tokens' = tokens
                /\ last' = [NoOp EXCEPT !.op = "authenticate", !.arg = username,
                              !.ok = FALSE, !.pre = DOMAIN tokens,
                              !.raised = IF c = "mismatch" THEN "HTTPException" ELSE c,
                              !.status = IF c = "mismatch" THEN 401 ELSE 0]
        /\ UNCHANGED <<openai_api_key, req, served, limit, window, now,
                       token_requests, task, calls>>

\* AuthService.validate_token
ValidateToken ==
  \E tok \in TokenStrs \cup {EmptyStr} :
    /\ last' = [NoOp EXCEPT !.op = "validate", !.arg = tok,
                            !.ok = validate_token(tok), !.pre = DOMAIN tokens]
    /\ UNCHANGED <<openai_api_key, req, served, tokens, limit, window, now, token_requests, task, calls>>

\* AuthService.extract_token_from_header
ExtractToken ==
  \E h \in Headers :
    LET tok == extract_token_from_header(h)
    IN  /\ last' = [NoOp EXCEPT !.op = "extract_token", !.arg = h, !.ret = tok,
                       !.ok = (tok # None), !.pre = DOMAIN tokens,
                       !.raised = IF tok = None THEN "HTTPException" ELSE "none",
                       !.status = IF tok = None THEN 401 ELSE 0]
        /\ UNCHANGED <<openai_api_key, req, served, tokens, limit, window, now, token_requests, task, calls>>

\* AuthService.revoke_token, lines 52-58
RevokeToken ==
  \E tok \in TokenStrs \cup {EmptyStr} :
    /\ tokens' = IF RevokeRaises(tok) = "none" THEN Revoked(tok) ELSE tokens
    /\ last' = [NoOp EXCEPT !.op = "revoke", !.arg = tok, !.pre = DOMAIN tokens,
                            !.ok = (RevokeRaises(tok) = "none"),
                            !.raised = RevokeRaises(tok)]
    /\ UNCHANGED <<openai_api_key, req, served, limit, window, now,
                   token_requests, task, calls>>

\* ------------------------------------------------------------- main.py
\* Authorization header values sent to the endpoints of main.py
ApiHeaders ==
  {None, Bearer(BACKEND_BEARER), Bearer(Uuid1), BACKEND_BEARER,
   <<"Basic", SP>> \o BACKEND_BEARER}

\* main.py lines 31, 47, 62: authorization != f"Bearer {BACKEND_BEARER}" is false
Authorized(authorization) == authorization = Bearer(BACKEND_BEARER)

\* main.py lines 52-55 and 120-123: the status answered for an exception
HandlerStatus(exc) == IF exc = "ValueError" THEN 400 ELSE 500

\* llm_service.py lines 53, 169, 234, 326: `not USE_LOCAL_LLM and not
\* OPENAI_API_KEY` is false
ProviderConfigured == USE_LOCAL_LLM \/ Truthy(openai_api_key)

\* `piece in text` for one symbol of text: the symbol is the piece or a
\* longer word that holds it
SymContains(sym, piece) ==
  sym = piece \/ (sym = "kafetaria" /\ piece = "kafe")

\* lines 55-56 and 154-155: any(keyword in message.lower() ...)
KeywordMatch(message) ==
  \E i \in 1..Len(message), keyword \in simple_keywords :
    SymContains(Lower(message)[i], keyword)

\* lines 124-125 and 148-149: "YES" in content.strip().upper()
SaysYes(content) ==
  \E i \in 1..Len(Strip(content)) : Upper(Strip(content))[i] = "YES"

detect_search_intent_NoFallback(message, reply) ==
  IF ~ProviderConfigured THEN KeywordMatch(message)
  ELSE IF reply = Failed THEN FALSE
  ELSE SaysYes(reply)

\* LLMService.detect_search_intent, lines 53-155; reply is the text the
\* provider returned, or Failed
detect_search_intent(message, reply) ==
  IF ~ProviderConfigured THEN KeywordMatch(message)
  ELSE IF reply = Failed THEN KeywordMatch(message)
  ELSE SaysYes(reply)

\* ---- the extraction reply
\* how the extraction call can end: a failure of the call, a body without
\* choices[0].message.content, a content that is no JSON, a JSON object
\* without "search_request", or a JSON object with it
ExtractOutcomes ==
  {"status_error", "timeout", "transport_error", "malformed_body",
   "not_json", "no_search_request", "json"}

\* the JSON object of a location_bias: its keys and their values
GoodBias == [keys |-> {"lat", "lng", "radius_m"}, lat |-> 1, lng |-> 1,
             radius_m |-> 500]
EmptyBias == [keys |-> {}, lat |-> 0, lng |-> 0, radius_m |-> 0]

\* the "search_request" objects the provider may return
SearchDatas ==
  {BaseData,
   [BaseData EXCEPT !.limit = <<5>>, !.location_name = <<"Bandung">>],
   [BaseData EXCEPT !.query = None, !.location_name = <<"Bandung">>],
   [BaseData EXCEPT !.query = EmptyStr],
   [BaseData EXCEPT !.limit = <<50>>],
   [BaseData EXCEPT !.min_rating = <<9>>],
   [BaseData EXCEPT !.location_bias = <<GoodBias>>,
                    !.location_name = <<"Bandung">>],
   [BaseData EXCEPT !.location_bias =
       <<[GoodBias EXCEPT !.keys = {"lat", "lng"}]>>],
   [BaseData EXCEPT !.location_bias = <<[GoodBias EXCEPT !.radius_m = 50]>>],
   [BaseData EXCEPT !.location_bias = <<[GoodBias EXCEPT !.keys = {"lat"}]>>],
   [BaseData EXCEPT !.location_bias = <<EmptyBias>>,
                    !.location_name = <<"Bandung">>]}

\* what the extraction call can end with
ExtractReplies ==
  {[kind |-> k, data |-> BaseData] : k \in ExtractOutcomes \ {"json"}}
    \cup {[kind |-> "json", data |-> d] : d \in SearchDatas}

\* llm_service.py lines 366-368: the message with the location context
user_message(message, location_context) ==
  IF Truthy(location_context)
  THEN message \o <<SP, "(Current location context:", SP>>
               \o location_context \o <<")">>
  ELSE message

\* line 425: search_data.get("location_bias") is true for a non-empty object
BiasGiven(data) ==
  data.location_bias # << >> /\ data.location_bias[1].keys # {}

\* lines 427-431: LocationBias(lat=bias_data["lat"], lng=bias_data["lng"],
\* radius_m=bias_data.get("radius_m", 8000))
RadiusOf(bias_data) ==
  IF "radius_m" \in bias_data.keys THEN bias_data.radius_m ELSE DefaultRadius

\* the exception lines 425-431 end with: KeyError for a missing lat or lng,
\* pydantic's ValidationError for radius_m outside 100..50000
BiasException(data) ==
  IF ~BiasGiven(data) THEN "none"
  ELSE IF ~({"lat", "lng"} \subseteq data.location_bias[1].keys) THEN "KeyError"
  ELSE IF RadiusOf(data.location_bias[1]) \notin 100..50000
       THEN "ValidationError"
  ELSE "none"

\* lines 424-431: the LocationBias built, or None
BiasOf(data) ==
  IF BiasGiven(data)
  THEN <<[lat |-> data.location_bias[1].lat, lng |-> data.location_bias[1].lng,
          radius_m |-> RadiusOf(data.location_bias[1])]>>
  ELSE << >>

\* lines 434-439: the query, or the message sent to the provider cut to
\* QueryMax characters, or "places"
QueryOf(data, um) ==
  IF Truthy(data.query) THEN data.query
  ELSE IF Take(Strip(um), QueryMax) # EmptyStr THEN Take(Strip(um), QueryMax)
  ELSE <<"places">>

\* line 443
LimitOf(data) == IF data.limit = << >> THEN DefaultLimit ELSE data.limit[1]

\* places_service.py lines 14-23: SearchRequest's field constraints
SearchRequestException(data) ==
  IF LimitOf(data) \notin 1..20 THEN "ValidationError" ELSE "none"

\* the exception raised inside the try of lines 404-456
ExtractInnerException(reply) ==
  CASE reply.kind = "status_error" -> "HTTPStatusError"
    [] reply.kind = "timeout" -> "TimeoutException"
    [] reply.kind = "transport_error" -> "TransportError"
    [] reply.kind = "malformed_body" -> "KeyError"
    [] reply.kind = "not_json" -> "JSONDecodeError"
    [] reply.kind = "no_search_request" -> "KeyError"
    [] OTHER -> IF BiasException(reply.data) # "none"
                THEN BiasException(reply.data)
                ELSE SearchRequestException(reply.data)

\* llm_service.py lines 458-475: every failure leaves as a ValueError
ExtractException(reply) ==
  IF ExtractInnerException(reply) = "none" THEN "none" ELSE "ValueError"

\* the text of the provider's error response (e.response.text)
ProviderErrorBody == "<provider error body>"

\* line 464: "Local LLM" if USE_LOCAL_LLM else "OpenAI API"
llm_type == IF USE_LOCAL_LLM THEN "Local LLM" ELSE "OpenAI API"

\* llm_service.py line 327
NoProviderText ==
  <<"OPENAI_API_KEY environment variable is required when using cloud LLM">>

\* llm_service.py lines 458-475: the message of the ValueError.  The
\* ValueErrors of lines 459 and 461 are raised inside the outer try and reach
\* `except Exception` of line 472, which wraps their text once more
ExtractErrorText(reply) ==
  LET inner == ExtractInnerException(reply)
      unexpected == <<"Unexpected error calling ", llm_type, ": ">>
  IN  CASE inner = "HTTPStatusError" ->
             <<llm_type, " error: ", "<status code>", " - ",
               ProviderErrorBody>>
        [] inner = "TimeoutException" -> <<llm_type, " request timed out">>
        [] inner = "JSONDecodeError" ->
             unexpected \o <<"Failed to parse LLM response as JSON: ",
                             "<str(e)>">>
        [] inner = "KeyError" /\ reply.kind # "malformed_body" ->
             unexpected \o <<"Missing required field in LLM response: ",
                             "<str(e)>">>
        [] OTHER -> unexpected \o <<"<str(e)>">>

\* main.py lines 53-55 and 120-123: the detail of the error response
HandlerDetail(exc, text) ==
  IF exc = "ValueError" THEN text ELSE <<"Internal server error: ">> \o text

\* the value standing for "no Search Request"
NoSearchRequest == [query |-> EmptyStr, limit |-> 0, min_rating |-> << >>,
                    location_name |-> None, sort_by |-> None,
                    location_bias |-> << >>]

\* LLMService.extract_search_request, lines 326-475
extract_search_request(message, location_context, reply) ==
  IF ~ProviderConfigured
  THEN [raised |-> "ValueError", text |-> NoProviderText,
        sr |-> NoSearchRequest]
  ELSE IF ExtractException(reply) # "none"
  THEN [raised |-> ExtractException(reply), text |-> ExtractErrorText(reply),
        sr |-> NoSearchRequest]
  ELSE [raised |-> "none", text |-> EmptyStr,
        sr |-> [query |-> QueryOf(reply.data,
                                  user_message(message, location_context)),
                limit |-> LimitOf(reply.data),
                min_rating |-> reply.data.min_rating,
                location_name |-> reply.data.location_name,
                sort_by |-> reply.data.sort_by,
                location_bias |-> BiasOf(reply.data)]]

\* ---- geocoding and place search
\* how the geocoding call can end: coordinates, an OK body without results,
\* a body whose status is not OK, a non-2xx status, a timeout, a transport
\* error, a body that is no JSON or lacks the expected fields
GeocodeOutcomes ==
  {"ok", "no_match", "not_ok_status", "status_error", "timeout",
   "transport_error", "malformed_body"}

\* a result's geometry.location
Coordinates == [lat |-> 2, lng |-> 2]

geocode_location_GuessOnNoMatch(out) ==
  IF out \in {"ok", "no_match"} THEN <<Coordinates>> ELSE << >>

\* GeocodingService.geocode_location, geocoding_service.py lines 29-62: the
\* location of the first result, or None (here << >>); `except Exception`
\* turns every failure into None
geocode_location(out) == IF out = "ok" THEN <<Coordinates>> ELSE << >>

NeedsGeocode_NameOnly(location_name, location_bias) == Truthy(location_name)

\* main.py lines 36 and 86: location_name and not location_bias
NeedsGeocode(location_name, location_bias) ==
  Truthy(location_name) /\ location_bias = << >>

locationBias_GeocodedFirst(location_bias, geocoded_location) ==
  IF geocoded_location # << >>
  THEN <<[latitude |-> geocoded_location[1].lat,
          longitude |-> geocoded_location[1].lng, radius |-> DefaultRadius]>>
  ELSE IF location_bias # << >>
  THEN <<[latitude |-> location_bias[1].lat, longitude |-> location_bias[1].lng,
          radius |-> location_bias[1].radius_m]>>
  ELSE << >>

\* places_service.py lines 59-79: request_body["locationBias"], << >> when
\* the key is not set
locationBias(location_bias, geocoded_location) ==
  IF location_bias # << >>
  THEN <<[latitude |-> location_bias[1].lat, longitude |-> location_bias[1].lng,
          radius |-> location_bias[1].radius_m]>>
  ELSE IF geocoded_location # << >>
  THEN <<[latitude |-> geocoded_location[1].lat,
          longitude |-> geocoded_location[1].lng, radius |-> DefaultRadius]>>
  ELSE << >>

\* places_service.py:7  GMAPS_EMBED_KEY = os.getenv("GMAPS_EMBED_KEY")
GMAPS_EMBED_KEY == <<"embed-key">>

\* raw results of the provider: id and the name are Optional[str], rating
\* and count are << >> when the key is missing
RawPlaces ==
  {[id |-> <<"a">>, name |-> <<"A">>, rating |-> <<4>>, count |-> <<10>>],
   [id |-> <<"b">>, name |-> <<"B">>, rating |-> <<4>>, count |-> <<50>>],
   [id |-> <<"c">>, name |-> <<"C">>, rating |-> <<5>>, count |-> <<1>>],
   [id |-> None, name |-> <<"D">>, rating |-> << >>, count |-> << >>],
   [id |-> <<"e">>, name |-> <<"E">>, rating |-> <<0>>, count |-> << >>],
   [id |-> None, name |-> <<"F">>, rating |-> <<4>>, count |-> <<10>>],
   [id |-> <<"g">>, name |-> <<"G">>, rating |-> << >>, count |-> <<10>>]}

\* the lists of at most n raw results
RawLists(n) == UNION {[1..k -> RawPlaces] : k \in 0..n}

\* `v or 0` for an optional number
OrZero(v) == IF v = << >> THEN 0 ELSE v[1]

\* lines 131-145: one processed result; the two URLs are f-strings over
\* place_id
Processed(place) ==
  [name |-> place.name,
   place_id |-> place.id,
   rating |-> place.rating,
   user_ratings_total |-> place.count,
   embed_iframe_url |->
     <<"https://www.google.com/maps/embed/v1/place?q=place_id:">>
       \o Str(place.id) \o <<"&key=">> \o Str(GMAPS_EMBED_KEY),
   directions_url |->
     <<"https://www.google.com/maps/dir/?api=1&destination=place_id:">>
       \o Str(place.id) \o <<"&destination_place_id=">> \o Str(place.id)]

\* line 128: the minimum rating filter
Kept(place, min_rating) ==
  ~(OrZero(min_rating) # 0 /\ OrZero(place.rating) < OrZero(min_rating))

\* line 152: the sort key, and the order of two keys (tuples compare
\* lexicographically)
SortKey(x) == <<OrZero(x.rating), OrZero(x.user_ratings_total)>>
KeyLess(k1, k2) == k1[1] < k2[1] \/ (k1[1] = k2[1] /\ k1[2] < k2[2])

Reverse(s) == [i \in 1..Len(s) |-> s[Len(s) + 1 - i]]

\* a stable ascending sort: x goes behind every element whose key is not
\* greater than its own
RECURSIVE InsertAsc(_, _)
InsertAsc(x, s) ==
  IF s = << >> THEN <<x>>
  ELSE IF KeyLess(SortKey(x), SortKey(Head(s))) THEN <<x>> \o s
  ELSE <<Head(s)>> \o InsertAsc(x, Tail(s))
RECURSIVE SortAsc(_)
SortAsc(s) ==
  IF s = << >> THEN << >>
  ELSE InsertAsc(s[Len(s)], SortAsc(SubSeq(s, 1, Len(s) - 1)))

SortReverse_TiesReversed(s) == Reverse(SortAsc(s))

\* lines 151-154: list.sort(key=..., reverse=True) reverses the list, sorts
\* it stably in ascending order and reverses it again
SortReverse(s) == Reverse(SortAsc(Reverse(s)))

\* PlacesService._process_new_api_results, lines 119-156
_process_new_api_results(raw_results, search_request) ==
  LET kept == SelectSeq(raw_results,
                        LAMBDA pl : Kept(pl, search_request.min_rating))
      results == [i \in 1..Len(kept) |-> Processed(kept[i])]
  IN  IF search_request.sort_by # <<"distance">> THEN SortReverse(results)
      ELSE results

\* maps_service.py lines 50-70: one processed result; a URL is None without
\* a place_id
MapProcessed(place) ==
  [name |-> place.name,
   place_id |-> place.id,
   rating |-> place.rating,
   user_ratings_total |-> place.count,
   embed_iframe_url |->
     IF Truthy(place.id)
     THEN <<"https://www.google.com/maps/embed/v1/place?q=place_id:">>
            \o Str(place.id) \o <<"&key=">> \o Str(GMAPS_EMBED_KEY)
     ELSE None,
   directions_url |->
     IF Truthy(place.id)
     THEN <<"https://www.google.com/maps/dir/?api=1&destination=place_id:">>
            \o Str(place.id) \o <<"&destination_place_id=">> \o Str(place.id)
     ELSE None]

\* MapService.search_places, maps_service.py lines 9-76: line 11 reads
\* config.GMAPS_SERVER_KEY outside the try, an attribute Config does not have
MapService_search_places(places) ==
  IF "GMAPS_SERVER_KEY" \notin DOMAIN config
       \/ "GMAPS_EMBED_KEY" \notin DOMAIN config
  THEN [raised |-> "AttributeError", results |-> << >>]
  ELSE [raised |-> "none",
        results |-> [i \in 1..Len(places) |-> MapProcessed(places[i])]]

\* Search Requests passed to PlacesService directly
PlaceRequests ==
  {[NoSearchRequest EXCEPT !.query = <<"kafe">>, !.limit = 5,
       !.sort_by = sb, !.min_rating = mr, !.location_bias = lb,
       !.location_name = ln] :
     sb \in {None, <<"rating">>, <<"distance">>},
     mr \in {<< >>, <<5>>},
     lb \in {<< >>, <<[lat |-> 1, lng |-> 1, radius_m |-> 500]>>},
     ln \in {None, <<"Bandung">>}}

\* how the place search call can end
PlacesOutcomes == {"ok", "status_error", "timeout", "transport_error", "not_json"}

\* places_service.py lines 90-93: raise_for_status and the httpx client raise
\* httpx errors, response.json() a json.JSONDecodeError (a ValueError);
\* nothing in search_places catches them
PlacesException(out) ==
  CASE out = "ok" -> "none"
    [] out = "status_error" -> "HTTPStatusError"
    [] out = "timeout" -> "TimeoutException"
    [] out = "transport_error" -> "TransportError"
    [] out = "not_json" -> "ValueError"

\* whether `limit` requests were served within the window ending now
QuotaExhausted == CountIn(served, now - window, now, FALSE) >= limit

\* the number of places of the last search answered so far
PriorPlaces == IF req.kind = "search" THEN req.n ELSE req.prior

\* a request arrives at an endpoint: the handler's bearer check
Arrive(endpoint, h, msg, ctx, loc_name, bias, pc) ==
  /\ req.pc \in {"idle", "done"}
  /\ Authorized(h) => Len(served) < MaxCalls
  /\ req' = IF Authorized(h)
            THEN [IdleReq EXCEPT !.pc = pc, !.endpoint = endpoint,
                    !.header = h, !.msg = msg, !.ctx = ctx,
                    !.loc_name = loc_name, !.bias = bias,
                    !.quota = QuotaExhausted, !.issued = DOMAIN tokens,
                    !.prior = PriorPlaces]
            ELSE [IdleReq EXCEPT !.pc = "done", !.endpoint = endpoint,
                    !.header = h, !.issued = DOMAIN tokens,
                    !.prior = PriorPlaces,
                    !.status = 401, !.kind = "error",
                    !.detail = <<"Unauthorized">>]
  /\ served' = IF Authorized(h) THEN Append(served, now) ELSE served
  /\ UNCHANGED <<openai_api_key, tokens, limit, window, now, token_requests,
                 task, calls, last>>

\* POST /v1/places/search, main.py lines 29-33; the body is a SearchRequest
PlacesSearchArrive ==
  \E h \in ApiHeaders, loc_name \in {None, EmptyStr, <<"Bandung">>},
     bias \in {<< >>, <<[lat |-> 1, lng |-> 1, radius_m |-> 500]>>} :
    Arrive("places_search", h, EmptyStr, None, loc_name, bias, "resolving")

\* POST /v1/chat/extract, main.py lines 42-48
ChatExtractArrive ==
  \E h \in ApiHeaders, msg \in ApiMessages, ctx \in LocationContexts :
    Arrive("chat_extract", h, msg, ctx, None, << >>, "extracting")

\* POST /v1/chat/search, main.py lines 57-71
ChatSearchArrive ==
  \E h \in ApiHeaders, msg \in ChatMessages, ctx \in LocationContexts :
    Arrive("chat_search", h, msg, ctx, None, << >>, "classifying")

Classify_SkipExtraction ==
  /\ req.pc = "classifying"
  /\ \E out \in (IF ProviderConfigured THEN ClassifyOutcomes ELSE {"none"}),
        text \in ClassifyReplies :
       LET reply == IF out = "ok" THEN text ELSE Failed
           intent == detect_search_intent(req.msg, reply)
       IN  req' = [req EXCEPT
             !.pc = IF intent THEN "searching" ELSE "chatting",
             !.mode = IF intent THEN "search" ELSE "chat",
             !.stages = IF ProviderConfigured THEN Append(@, "classify") ELSE @]
  /\ UNCHANGED <<openai_api_key, served, tokens, limit, window, now,
                 token_requests, task, calls, last>>

\* main.py lines 73-76: detect_search_intent and the branch on its result
Classify ==
  /\ req.pc = "classifying"
  /\ \E out \in (IF ProviderConfigured THEN ClassifyOutcomes ELSE {"none"}),
        text \in ClassifyReplies :
       LET reply == IF out = "ok" THEN text ELSE Failed
           intent == detect_search_intent(req.msg, reply)
       IN  req' = [req EXCEPT
             !.pc = IF intent THEN "extracting" ELSE "chatting",
             !.mode = IF intent THEN "search" ELSE "chat",
             !.stages = IF ProviderConfigured THEN Append(@, "classify") ELSE @]
  /\ UNCHANGED <<openai_api_key, served, tokens, limit, window, now,
                 token_requests, task, calls, last>>

\* LLMService.extract_search_request as called at main.py lines 51 and 79
Extract ==
  /\ req.pc = "extracting"
  /\ \E reply \in ExtractReplies :
       LET r == extract_search_request(req.msg, req.ctx, reply)
           stages == IF ProviderConfigured THEN Append(req.stages, "extract")
                     ELSE req.stages
       IN  IF r.raised # "none"
           THEN req' = [req EXCEPT !.pc = "done", !.stages = stages,
                          !.xreply = IF ProviderConfigured THEN reply ELSE @,
                          !.status = HandlerStatus(r.raised), !.kind = "error",
                          !.detail = HandlerDetail(r.raised, r.text)]
           ELSE req' = [req EXCEPT
                  !.pc = IF req.endpoint = "chat_extract" THEN "done"
                         ELSE "resolving",
                  !.status = IF req.endpoint = "chat_extract" THEN 200 ELSE 0,
                  !.kind = IF req.endpoint = "chat_extract" THEN "extraction"
                           ELSE @,
                  !.stages = stages, !.xreply = reply, !.query = r.sr.query,
                  !.loc_name = r.sr.location_name,
                  !.bias = r.sr.location_bias]
  /\ UNCHANGED <<openai_api_key, served, tokens, limit, window, now,
                 token_requests, task, calls, last>>

\* main.py lines 34-37 and 84-92: geocode only a named location without bias;
\* geocode_location returns coordinates or None and never raises
Resolve ==
  /\ req.pc = "resolving"
  /\ IF NeedsGeocode(req.loc_name, req.bias)
     THEN \E out \in GeocodeOutcomes :
            req' = [req EXCEPT !.pc = "searching", !.geo_out = out,
                               !.geo = geocode_location(out),
                               !.stages = Append(@, "geocode")]
     ELSE req' = [req EXCEPT !.pc = "searching"]
  /\ UNCHANGED <<openai_api_key, served, tokens, limit, window, now,
                 token_requests, task, calls, last>>

\* PlacesService.search_places as called at main.py lines 40 and 95; the
\* handler of /v1/places/search catches nothing, that of /v1/chat/search
\* answers by lines 120-123
Search ==
  /\ req.pc = "searching"
  /\ \E out \in PlacesOutcomes, n \in 0..MaxPlaces :
       LET sent == locationBias(req.bias, req.geo)
       IN  IF PlacesException(out) # "none"
           THEN req' = [req EXCEPT !.pc = "done", !.sent = sent,
                          !.places_out = out,
                          !.stages = Append(@, "places"),
                          !.status = IF req.endpoint = "chat_search"
                                     THEN HandlerStatus(PlacesException(out))
                                     ELSE 500,
                          !.kind = "error",
                          !.detail = IF req.endpoint = "chat_search"
                                     THEN HandlerDetail(PlacesException(out),
                                                        <<"<str(e)>">>)
                                     ELSE <<"Internal Server Error">>]
           ELSE IF req.endpoint = "places_search"
           THEN req' = [req EXCEPT !.pc = "done", !.n = n, !.status = 200,
                          !.sent = sent, !.places_out = out,
                          !.kind = "results", !.stages = Append(@, "places")]
           ELSE req' = [req EXCEPT !.pc = "synthesizing", !.n = n,
                          !.sent = sent, !.places_out = out,
                          !.stages = Append(@, "places")]
  /\ UNCHANGED <<openai_api_key, served, tokens, limit, window, now,
                 token_requests, task, calls, last>>

\* how a synthesis call can end: a body with a text content, any failure of
\* the call or of reading its body, a body whose content is null
SynthesisOutcomes == {"ok", "failed", "null_content"}

\* the text content of the provider's reply
ProviderText == <<"<provider text>">>

\* llm_service.py line 220
Apology ==
  <<"Maaf, saya mengalami kesulitan dalam merespons. Silakan coba lagi.">>

\* llm_service.py line 235
FoundSomeText ==
  <<"Saya telah menemukan beberapa tempat yang sesuai dengan pencarian Anda.">>

\* llm_service.py line 311: the f-string with results_count
FoundCountText(results_count) ==
  <<"Saya menemukan ", ToString(results_count),
    " tempat yang sesuai dengan pencarian Anda. Silakan lihat hasil di bawah ini!">>

\* llm_service.py line 313
NoneFoundText ==
  <<"Maaf, saya tidak menemukan tempat yang sesuai dengan pencarian Anda. Coba dengan kata kunci yang berbeda.">>

\* LLMService.generate_regular_chat_response, llm_service.py lines 158-220:
\* without a provider it raises ValueError (lines 169-170); the content of
\* the reply is returned as it is, None included (line 216); every failure
\* inside the try returns the apology (lines 217-220)
generate_regular_chat_response(out) ==
  IF ~ProviderConfigured
  THEN [raised |-> "ValueError", text |-> NoProviderText]
  ELSE [raised |-> "none",
        text |-> CASE out = "ok" -> ProviderText
                   [] out = "null_content" -> None
                   [] OTHER -> Apology]

\* LLMService.generate_response_message, llm_service.py lines 223-313:
\* without a provider the fixed sentence of line 235; content.strip() of the
\* reply (line 305), which raises on a null content; every failure inside the
\* try returns the sentence chosen by results_count (lines 307-313)
generate_response_message(results_count, out) ==
  IF ~ProviderConfigured
  THEN [raised |-> "none", text |-> FoundSomeText]
  ELSE [raised |-> "none",
        text |-> IF out = "ok" THEN ProviderText
                 ELSE IF results_count > 0 THEN FoundCountText(results_count)
                 ELSE NoneFoundText]

\* generate_response_message and ChatSearchResponse, main.py lines 100-108
Synthesize ==
  /\ req.pc = "synthesizing"
  /\ \E out \in (IF ProviderConfigured THEN SynthesisOutcomes ELSE {"ok"}) :
       LET r == generate_response_message(req.n, out)
       IN  req' = [req EXCEPT
                     !.pc = "done", !.status = 200, !.kind = "search",
                     !.stages = IF ProviderConfigured
                                THEN Append(@, "synthesize") ELSE @,
                     !.response_message = r.text]
  /\ UNCHANGED <<openai_api_key, served, tokens, limit, window, now,
                 token_requests, task, calls, last>>

\* generate_regular_chat_response and RegularChatResponse, main.py lines
\* 111-118: a response_message of None fails the response model's
\* validation (a ValueError); lines 120-121 answer a ValueError
Chat ==
  /\ req.pc = "chatting"
  /\ \E out \in (IF ProviderConfigured THEN SynthesisOutcomes ELSE {"ok"}) :
       LET r == generate_regular_chat_response(out)
           stages == IF ProviderConfigured THEN Append(req.stages, "chat")
                     ELSE req.stages
       IN  IF r.raised # "none"
           THEN req' = [req EXCEPT !.pc = "done", !.stages = stages,
                          !.status = HandlerStatus(r.raised),
                          !.kind = "error",
                          !.detail = HandlerDetail(r.raised, r.text)]
           ELSE IF r.text = None
           THEN req' = [req EXCEPT !.pc = "done", !.stages = stages,
                          !.status = HandlerStatus("ValueError"),
                          !.kind = "error",
                          !.detail = HandlerDetail("ValueError",
                                                   <<"<str(e)>">>)]
           ELSE req' = [req EXCEPT !.pc = "done", !.stages = stages,
                          !.status = 200, !.kind = "chat",
                          !.response_message = r.text]
  /\ UNCHANGED <<openai_api_key, served, tokens, limit, window, now,
                 token_requests, task, calls, last>>

\* ---- direct calls of the language model service
\* LLMService.detect_search_intent(message), called once with any message
\* and any end of the provider call
DetectIntentCall ==
  /\ last.op = "none"
  /\ \E message \in Messages,
        out \in (IF ProviderConfigured THEN ClassifyOutcomes ELSE {"none"}),
        text \in ClassifyReplies :
       LET reply == IF out = "ok" THEN text ELSE Failed
       IN  last' = [NoOp EXCEPT
                      !.op = "detect_search_intent",
                      !.by = out,
                      !.arg = message,
                      !.pre = {reply},
                      !.ret = <<detect_search_intent(message, reply)>>]
  /\ UNCHANGED <<openai_api_key, req, served, tokens, limit, window, now,
                 token_requests, task, calls>>

\* LLMService.extract_search_request(chat_request), called once with any
\* message, location context and end of the provider call
ExtractCall ==
  /\ last.op = "none"
  /\ \E message \in Messages, ctx \in LocationContexts,
        reply \in ExtractReplies :
       LET r == extract_search_request(message, ctx, reply)
       IN  last' = [NoOp EXCEPT
                      !.op = "extract_search_request",
                      !.ok = (r.raised = "none"),
                      !.raised = r.raised,
                      !.arg = <<[message |-> message, location_context |-> ctx,
                                 reply |-> reply]>>,
                      !.ret = <<r.sr>>]
  /\ UNCHANGED <<openai_api_key, req, served, tokens, limit, window, now,
                 token_requests, task, calls>>

\* LLMService.generate_regular_chat_response(message, chat_history), called
\* once with any message
ChatResponseCall ==
  /\ last.op = "none"
  /\ \E message \in Messages,
        out \in (IF ProviderConfigured THEN SynthesisOutcomes ELSE {"none"}) :
       LET r == generate_regular_chat_response(out)
       IN  last' = [NoOp EXCEPT
                      !.op = "generate_regular_chat_response",
                      !.by = out, !.ok = (r.raised = "none"),
                      !.raised = r.raised, !.arg = message,
                      !.ret = IF r.raised = "none" THEN <<r.text>> ELSE << >>]
  /\ UNCHANGED <<openai_api_key, req, served, tokens, limit, window, now,
                 token_requests, task, calls>>

\* LLMService.generate_response_message(user_message, search_results), called
\* once with any number of results
ResponseMessageCall ==
  /\ last.op = "none"
  /\ \E message \in Messages, n \in 0..MaxPlaces,
        out \in (IF ProviderConfigured THEN SynthesisOutcomes ELSE {"none"}) :
       LET r == generate_response_message(n, out)
       IN  last' = [NoOp EXCEPT
                      !.op = "generate_response_message",
                      !.by = out, !.ok = (r.raised = "none"),
                      !.raised = r.raised,
                      !.arg = <<[message |-> message, results_count |-> n]>>,
                      !.ret = IF r.raised = "none" THEN <<r.text>> ELSE << >>]
  /\ UNCHANGED <<openai_api_key, req, served, tokens, limit, window, now,
                 token_requests, task, calls>>

\* ---- direct calls of the place search service
\* PlacesService.search_places(search_request, geocoded_location), lines
\* 31-105, called once with any arguments
SearchPlacesCall ==
  /\ last.op = "none"
  /\ \E sr \in PlaceRequests, g \in {<< >>, <<Coordinates>>},
        out \in PlacesOutcomes, raw \in RawLists(MaxPlaces) :
       last' = [NoOp EXCEPT
                  !.op = "search_places",
                  !.ok = (PlacesException(out) = "none"),
                  !.raised = PlacesException(out),
                  !.arg = <<[search_request |-> sr, geocoded_location |-> g,
                             places |-> raw]>>,
                  !.ret = <<[locationBias |-> locationBias(sr.location_bias, g),
                             results |->
                               IF PlacesException(out) = "none"
                               THEN _process_new_api_results(raw, sr)
                               ELSE << >>]>>]
  /\ UNCHANGED <<openai_api_key, req, served, tokens, limit, window, now,
                 token_requests, task, calls>>

\* MapService.search_places(query), called once, with any provider results
MapSearchCall ==
  /\ last.op = "none"
  /\ \E raw \in RawLists(MaxPlaces) :
       LET r == MapService_search_places(raw)
       IN  last' = [NoOp EXCEPT
                      !.op = "map_search",
                      !.ok = (r.raised = "none"),
                      !.raised = r.raised,
                      !.arg = <<[places |-> raw]>>,
                      !.ret = r.results]
  /\ UNCHANGED <<openai_api_key, req, served, tokens, limit, window, now,
                 token_requests, task, calls>>

\* PlacesService._process_new_api_results(raw_results, search_request),
\* called once with any arguments
ProcessResults ==
  /\ last.op = "none"
  /\ \E sr \in {r \in PlaceRequests :
                  r.location_bias = << >> /\ r.location_name = None},
        raw \in RawLists(MaxResults) :
       last' = [NoOp EXCEPT
                  !.op = "process_results",
                  !.arg = <<[search_request |-> sr, raw_results |-> raw]>>,
                  !.ret = _process_new_api_results(raw, sr)]
  /\ UNCHANGED <<openai_api_key, req, served, tokens, limit, window, now,
                 token_requests, task, calls>>

\* the classes as loaded: no token issued, nothing recorded, and a
\* RateLimiter constructed with a positive limit and a positive window
\* (the defaults are 10 requests and 30 minutes)
Init ==
  /\ openai_api_key \in {None, <<"sk-key">>}
  /\ req = IdleReq
  /\ served = << >>
  /\ tokens = [t \in {} |-> 0]
  /\ limit \in 1..MaxLimit
  /\ window \in 1..MaxWindow
  /\ now = 0
  /\ token_requests = [t \in {} |-> << >>]
  /\ task = [r \in Tasks |-> IdleTask]
  /\ calls = << >>
  /\ last = NoOp

\* a token store that holds some tokens, each created at instant 0
InitStore ==
  /\ openai_api_key = None
  /\ req = IdleReq
  /\ served = << >>
  /\ tokens \in UNION {[S -> {0}] : S \in SUBSET UuidHex}
  /\ limit = 1
  /\ window = 1
  /\ now = 0
  /\ token_requests = [t \in {} |-> << >>]
  /\ task = [r \in Tasks |-> IdleTask]
  /\ calls = << >>
  /\ last = NoOp

\* the classes as loaded, with one configuration of the rate limiter
InitPipeline == Init /\ limit = 1 /\ window = 1

NextLimiter == Tick \/ CheckRateLimit

NextPipeline ==
  \/ PlacesSearchArrive \/ ChatExtractArrive \/ ChatSearchArrive
  \/ Classify \/ Extract \/ Resolve \/ Search \/ Synthesize \/ Chat

NextApi == NextPipeline \/ Authenticate \/ RevokeToken

NextStore == Tick \/ Authenticate \/ ValidateToken \/ ExtractToken \/ RevokeToken

NextMiddleware == Tick \/ WrapperCall \/ HandlerReturn

NextPlaces == SearchPlacesCall \/ ProcessResults \/ MapSearchCall

NextSession == Tick \/ CheckRateLimit \/ RevokeToken

NextLlm ==
  DetectIntentCall \/ ExtractCall \/ ChatResponseCall \/ ResponseMessageCall

Next ==
  NextLimiter \/ NextMiddleware \/ NextStore \/ NextApi \/ NextPlaces \/ NextLlm

Spec == Init /\ [][Next]_vars

\* issued tokens that are rate limited and revoked
SpecSession == InitStore /\ [][NextSession]_vars

\* direct calls of the rate limiter
SpecLimiter == Init /\ [][NextLimiter]_vars

\* requests that reach the rate limiter through its middleware
SpecMiddleware == Init /\ [][NextMiddleware]_vars

\* the endpoints of main.py, one request at a time (requests share no state)
SpecApi == Init /\ [][NextApi]_vars

\* the handlers of main.py alone, which use neither the token store nor the
\* rate limiter
SpecPipeline == InitPipeline /\ [][NextPipeline]_vars

\* the operations of AuthService on a store that may hold tokens
SpecStore == InitStore /\ [][NextStore]_vars

\* single calls of PlacesService with any arguments
SpecPlaces == InitStore /\ [][NextPlaces]_vars

\* single calls of LLMService with any arguments, with and without a provider
SpecLlm == Init /\ [][NextLlm]_vars

\* ------------------------------------------------------- history helpers
\* the calls made for one token, oldest first
CallsOf(tok) == SelectSeq(calls, LAMBDA c : c.tok = tok)

\* the slots a call found free: limit minus the instants still in its window
SlotsSeen(c) == limit - CountIn(c.before, c.t - window, c.t, FALSE)

LastCall == calls[Len(calls)]

\* ------------------------------------------------------------------ claims
\* C1: on a fresh token, when limit+1 calls all fall within one window (the
\* last less than `window` after the first), the first `limit` calls are
\* admitted and the (limit+1)-th, and only it, is rejected.
C1_LimitPlusOne ==
  \A tok \in LimiterTokens :
    LET cs == CallsOf(tok)
    IN  (Len(cs) >= limit + 1 /\ cs[limit + 1].t - cs[1].t < window)
          => /\ \A i \in 1..limit : cs[i].ok
             /\ ~cs[limit + 1].ok

C1_Witness ==
  \E tok \in LimiterTokens :
    LET cs == CallsOf(tok)
    IN  /\ limit = 2
        /\ Len(cs) >= limit + 1
        /\ cs[limit + 1].t - cs[1].t < window
        /\ cs[1].t < cs[2].t
        /\ ~cs[limit + 1].ok

\* C2: two requests of one token that pass the middleware at the same
\* instant are both admitted only if the first of them found at least two
\* free slots; and no stored window ever holds more than `limit` instants
\* that lie within one window of each other.
C2_AtomicPerToken ==
  /\ \A r1 \in Tasks, r2 \in Tasks :
       (/\ task[r1].pc = "handler" /\ task[r2].pc = "handler"
        /\ task[r1].call < task[r2].call
        /\ calls[task[r1].call].tok = calls[task[r2].call].tok
        /\ calls[task[r1].call].t = calls[task[r2].call].t)
         => SlotsSeen(calls[task[r1].call]) >= 2
  /\ \A tok \in DOMAIN token_requests :
       \A i \in 1..Len(token_requests[tok]) :
         CountIn(token_requests[tok], token_requests[tok][i],
                 token_requests[tok][i] + window - 1, TRUE) <= limit

C2_Witness ==
  \E r \in Tasks : \E j \in 1..Len(calls) :
    /\ task[r].pc = "handler"
    /\ limit = 2
    /\ j > task[r].call
    /\ calls[j].tok = calls[task[r].call].tok
    /\ calls[j].t = calls[task[r].call].t
    /\ SlotsSeen(calls[task[r].call]) = 1
    /\ ~calls[j].ok

\* C3: when a call for a token was rejected, the next call for that token
\* made once `window` has elapsed since the earliest instant recorded at the
\* rejection is admitted: nothing but the passing of time is needed.
C3_AdmissibleAgain ==
  \A tok \in LimiterTokens :
    LET cs == CallsOf(tok)
    IN  \A j \in 2..Len(cs) :
          (/\ ~cs[j - 1].ok
           /\ cs[j - 1].before # << >>
           /\ cs[j].t - Head(cs[j - 1].before) >= window)
            => cs[j].ok

C3_Witness ==
  \E tok \in LimiterTokens :
    LET cs == CallsOf(tok)
    IN  \E j \in 2..Len(cs) :
          /\ ~cs[j - 1].ok
          /\ cs[j].t - Head(cs[j - 1].before) = window
          /\ cs[j].ok

\* C4 as claimed: a call is rejected exactly when at least `limit` recorded
\* instants lie in the closed interval [now-window, now].
C4_ClosedInterval ==
  \A j \in 1..Len(calls) :
    calls[j].ok <=>
      CountIn(calls[j].before, calls[j].t - window, calls[j].t, TRUE) < limit

\* C4 amended: a call is rejected exactly when at least `limit` recorded
\* instants t satisfy now-window < t <= now (an instant exactly `window` old
\* no longer counts); an admitted call stores the instants still in the
\* window followed by now, and a rejected call leaves the list as it was.
C4_HalfOpenInterval ==
  /\ \A j \in 1..Len(calls) :
       calls[j].ok <=>
         CountIn(calls[j].before, calls[j].t - window, calls[j].t, FALSE) < limit
  /\ calls # << >> =>
       Stored(LastCall.tok) =
         IF LastCall.ok
         THEN Append(SelectSeq(LastCall.before,
                               LAMBDA t : LastCall.t - window < t), LastCall.t)
         ELSE LastCall.before

C4_Witness ==
  /\ calls # << >>
  /\ LastCall.ok
  /\ Len(LastCall.before) >= limit
  /\ \E i \in 1..Len(LastCall.before) : LastCall.t - LastCall.before[i] = window

\* C5: a chat request (/v1/chat/search, /v1/chat/extract) that is not turned
\* away as unauthorized and arrives when its token's quota is exhausted is
\* answered 429 and issues no classification, extraction, geocoding or place
\* search call.
C5_GateBeforePipeline ==
  (/\ req.endpoint \in {"chat_search", "chat_extract"}
   /\ req.status # 401
   /\ req.quota)
    => /\ req.pc = "done"
       /\ req.status = 429
       /\ req.stages = << >>

\* C6: a request to a protected endpoint is authorized (not answered 401)
\* exactly when its Authorization header is `Bearer <token>` for a token
\* that authenticate issued and that is still stored.
C6_BearerOfIssuedToken ==
  req.endpoint \in {"places_search", "chat_extract", "chat_search"}
    => (req.status # 401
          <=> \E tok \in req.issued : req.header = Bearer(tok))

\* C7: authenticate either fails with 401 and leaves the token store as it
\* was, or returns a token that was not stored before, validates now and
\* has no recorded request.
C7_AuthenticateContract ==
  last.op = "authenticate"
    => IF last.ok
       THEN /\ last.ret \notin last.pre
            /\ last.ret \in DOMAIN tokens
            /\ Stored(last.ret) = << >>
       ELSE /\ last.raised = "HTTPException"
            /\ last.status = 401
            /\ DOMAIN tokens = last.pre

\* C8: extract_token_from_header returns a token exactly when the header is
\* `Bearer ` followed by a stored token, and then returns that token; in
\* every other case it raises 401; the token store is left as it was.
C8_ExtractToken ==
  last.op = "extract_token"
    => /\ last.ok <=> \E tok \in last.pre : last.arg = <<"Bearer", SP>> \o tok
       /\ last.ok => /\ last.ret \in last.pre
                     /\ last.arg = <<"Bearer", SP>> \o last.ret
                     /\ last.raised = "none"
       /\ ~last.ok => /\ last.raised = "HTTPException"
                      /\ last.status = 401
                      /\ last.ret = None
       /\ DOMAIN tokens = last.pre

C8_Witness ==
  /\ last.op = "extract_token"
  /\ last.ok
  /\ last.ret = Uuid1
  /\ Uuid2 \notin last.pre

\* C9: revoke_token never raises; after it the token is not stored, every
\* other token is stored exactly if it was before, and revoking a token
\* that is not stored (revoked already, or never issued) changes nothing.
C9_RevokeIdempotent ==
  last.op = "revoke"
    => /\ last.raised = "none"
       /\ last.arg \notin DOMAIN tokens
       /\ \A tok \in TokenStrs \ {last.arg} :
            tok \in DOMAIN tokens <=> tok \in last.pre
       /\ last.arg \notin last.pre => DOMAIN tokens = last.pre

C9_Witness ==
  /\ last.op = "revoke"
  /\ last.arg = Uuid1
  /\ Uuid1 \notin last.pre
  /\ DOMAIN tokens = {Uuid2}

\* C10: a chat request that passes the gate ends with a response message,
\* of a search or of a conversational turn, whatever the external calls
\* return.
C10_AlwaysResponse ==
  (/\ req.endpoint = "chat_search"
   /\ req.pc = "done"
   /\ req.status \notin {401, 429})
    => /\ req.status = 200
       /\ req.kind \in {"search", "chat"}

\* ------------------------------------------------ claims on the pipeline
\* whether the handler has issued the external call of that name
InStages(name) == \E i \in 1..Len(req.stages) : req.stages[i] = name

\* C11: a request whose place search call failed (timeout, transport error,
\* non-2xx, unreadable body) is not aborted: it goes on to synthesis and is
\* answered normally, with zero places.
C11_SearchFailureDegrades ==
  (/\ req.endpoint \in {"chat_search", "places_search"}
   /\ req.places_out \notin {"none", "ok"})
    => /\ req.pc \in {"synthesizing", "done"}
       /\ req.pc = "done" => /\ req.status = 200
                             /\ req.kind \in {"search", "results"}
                             /\ req.n = 0

\* C12: whatever way the geocoding call fails, the geocoder returns no
\* coordinates and raises nothing: the handler goes on to the place search,
\* and that search is sent without a location bias.
C12_GeocodeFailureUnbiased ==
  req.geo_out \notin {"none", "ok"}
    => /\ req.geo = << >>
       /\ req.pc \in {"searching", "synthesizing", "done"}
       /\ req.pc # "searching" => /\ InStages("places")
                                  /\ req.sent = << >>

C12_Witness ==
  /\ req.endpoint = "chat_search"
  /\ req.geo_out = "timeout"
  /\ req.pc = "done"
  /\ req.status = 200
  /\ InStages("places")
  /\ req.sent = << >>

\* C13: at both /v1/places/search and /v1/chat/search the geocoder is called
\* exactly when the Search Request has a location_name and no
\* location_bias; with a location_bias there is no geocoding call even when
\* location_name is set.
C13_GeocodeIffNameWithoutBias ==
  /\ InStages("geocode") => (Truthy(req.loc_name) /\ req.bias = << >>)
  /\ (req.pc = "searching" \/ InStages("places"))
       => (InStages("geocode") <=> (Truthy(req.loc_name) /\ req.bias = << >>))

C13_Witness ==
  /\ req.endpoint = "chat_search"
  /\ req.loc_name = <<"Bandung">>
  /\ req.bias # << >>
  /\ InStages("places")
  /\ ~InStages("geocode")

\* C14: the location bias sent to the provider is the request's explicit
\* location_bias with its lat, lng and radius_m unchanged when there is one,
\* else the geocoded coordinates with radius 8000 when there are some, else
\* none; geocoded coordinates never replace an explicit bias.
C14_BiasPrecedence ==
  last.op = "search_places"
    => LET b == last.arg[1].search_request.location_bias
           g == last.arg[1].geocoded_location
           sent == last.ret[1].locationBias
       IN  /\ b # << >> =>
                sent = <<[latitude |-> b[1].lat, longitude |-> b[1].lng,
                          radius |-> b[1].radius_m]>>
           /\ (b = << >> /\ g # << >>) =>
                sent = <<[latitude |-> g[1].lat, longitude |-> g[1].lng,
                          radius |-> 8000]>>
           /\ (b = << >> /\ g = << >>) => sent = << >>

C14_Witness ==
  /\ last.op = "search_places"
  /\ last.arg[1].search_request.location_bias # << >>
  /\ last.arg[1].geocoded_location = <<Coordinates>>
  /\ last.ret[1].locationBias = <<[latitude |-> 1, longitude |-> 1,
                                   radius |-> 500]>>

\* the results a call of _process_new_api_results must return, in provider
\* order: those that pass the minimum rating filter
KeptRaw(raw_results, min_rating) ==
  SelectSeq(raw_results,
            LAMBDA pl : OrZero(min_rating) = 0
                          \/ OrZero(pl.rating) >= OrZero(min_rating))

\* C15: unless sort_by is "distance", the results are the provider's results
\* in descending order of (rating or 0, rating_count or 0), results with
\* equal keys in their provider order; with sort_by "distance" the provider
\* order is kept.  [{4,10},{4,50},{5,1}] becomes [{5,1},{4,50},{4,10}].
C15_StableDescending ==
  last.op = "process_results"
    => LET sr == last.arg[1].search_request
           kept == KeptRaw(last.arg[1].raw_results, sr.min_rating)
           res == last.ret
           n == Len(kept)
           Same(r, pl) == /\ r.name = pl.name /\ r.place_id = pl.id
                          /\ r.rating = pl.rating
                          /\ r.user_ratings_total = pl.count
       IN  /\ Len(res) = n
           /\ IF sr.sort_by = <<"distance">>
              THEN \A i \in 1..n : Same(res[i], kept[i])
              ELSE \E p \in [1..n -> 1..n] :
                     /\ \A i, j \in 1..n : i # j => p[i] # p[j]
                     /\ \A i \in 1..n : Same(res[i], kept[p[i]])
                     /\ \A i, j \in 1..n : i < j =>
                          /\ ~KeyLess(SortKey(res[i]), SortKey(res[j]))
                          /\ SortKey(res[i]) = SortKey(res[j]) => p[i] < p[j]

C15_Witness ==
  /\ last.op = "process_results"
  /\ last.arg[1].search_request.sort_by = None
  /\ [i \in 1..Len(last.arg[1].raw_results) |->
        last.arg[1].raw_results[i].name] = <<<<"A">>, <<"B">>, <<"C">>>>
  /\ [i \in 1..Len(last.ret) |-> last.ret[i].name]
       = <<<<"C">>, <<"B">>, <<"A">>>>

\* C16: a raw result without a place_id is still among the processed
\* results, and its embed URL and directions URL are marked not available
\* (None) instead of being built from the missing identifier.
C16_NoIdUrlsUnavailable ==
  last.op = "process_results"
    => LET kept == KeptRaw(last.arg[1].raw_results,
                           last.arg[1].search_request.min_rating)
       IN  \A i \in 1..Len(kept) :
             kept[i].id = None
               => \E j \in 1..Len(last.ret) :
                    /\ last.ret[j].name = kept[i].name
                    /\ last.ret[j].embed_iframe_url = None
                    /\ last.ret[j].directions_url = None

\* C17: when the classification call succeeds, detect_search_intent returns
\* True exactly when the reply, trimmed and case-folded, starts with "yes"; a
\* reply that holds "yes" only after other text is not a new search.
C17_AffirmativePrefix ==
  (last.op = "detect_search_intent" /\ last.by = "ok")
    => \A reply \in last.pre :
         last.ret[1] <=> StartsWith(Lower(Strip(reply)), <<"yes">>)

\* C18: without a provider, or when the classification call fails in any
\* way, detect_search_intent raises nothing and returns the keyword
\* decision: True exactly when the lower-cased message holds one of the
\* fixed keywords as a substring.
C18_FallbackDecision ==
  (last.op = "detect_search_intent" /\ last.by # "ok")
    => /\ last.raised = "none"
       /\ last.ret[1] <=>
            \E i \in 1..Len(last.arg), keyword \in
                 {"cari", "dimana", "tempat", "restoran", "kafe", "hotel",
                  "toko", "mall"} :
              SymContains(Lower(last.arg)[i], keyword)

C18_Witness ==
  /\ last.op = "detect_search_intent"
  /\ last.by = "timeout"
  /\ last.arg = <<"Kafetaria">>
  /\ last.ret = <<TRUE>>

\* C19: when the reply parses and its query is absent or empty, the query
\* is the first 50 characters of the trimmed message the user sent (without
\* the location-context hint), or `places` when that is empty.
C19_QueryFromOriginalMessage ==
  (/\ last.op = "extract_search_request"
   /\ last.ok
   /\ ~Truthy(last.arg[1].reply.data.query))
    => last.ret[1].query =
         IF Take(Strip(last.arg[1].message), 50) = EmptyStr THEN <<"places">>
         ELSE Take(Strip(last.arg[1].message), 50)

\* whether a "search_request" object holds a value outside the Search
\* Request shape: limit in 1..20, min_rating in 1..5, a location_bias with
\* lat, lng and a radius_m in 100..50000
OutsideShape(data) ==
  \/ data.limit # << >> /\ data.limit[1] \notin 1..20
  \/ data.min_rating # << >> /\ data.min_rating[1] \notin 1..5
  \/ /\ data.location_bias # << >>
     /\ \/ ~({"lat", "lng"} \subseteq data.location_bias[1].keys)
        \/ /\ "radius_m" \in data.location_bias[1].keys
           /\ data.location_bias[1].radius_m \notin 100..50000

\* whether the reply of the extraction call is bad: no JSON, no
\* "search_request", or values outside the shape
BadReply(reply) ==
  \/ reply.kind \in {"not_json", "no_search_request"}
  \/ reply.kind = "json" /\ OutsideShape(reply.data)

\* C20: whenever the extraction reply is bad, extraction fails: the request
\* ends with status 400, no Search Request is produced and no place search
\* is made.
C20_BadReplyFails ==
  (/\ req.endpoint \in {"chat_extract", "chat_search"}
   /\ BadReply(req.xreply))
    => /\ req.pc = "done"
       /\ req.status = 400
       /\ ~InStages("geocode")
       /\ ~InStages("places")

\* whether a text holds that symbol
Holds(text, sym) == \E i \in DOMAIN text : text[i] = sym

\* C21: no response ever contains the raw error body of an external
\* provider: neither the detail of an error response nor the message of a
\* chat response holds the provider's error text.
C21_NoProviderErrorBody ==
  /\ ~Holds(req.detail, ProviderErrorBody)
  /\ ~Holds(req.response_message, ProviderErrorBody)

\* C22: generate_regular_chat_response never raises, whatever the provider
\* configuration, and returns the fixed apology whenever the provider is not
\* reachable or its call failed.
C22_ChatNeverRaises ==
  last.op = "generate_regular_chat_response"
    => /\ last.raised = "none"
       /\ (~ProviderConfigured \/ last.by = "failed")
            => last.ret = <<Apology>>

\* C23: generate_response_message never raises, and whenever it cannot use
\* a provider reply it returns the sentence chosen by the number of results:
\* one that states the count when there are results, the no-results sentence
\* when there are none.
C23_TemplateByCount ==
  last.op = "generate_response_message"
    => /\ last.raised = "none"
       /\ (~ProviderConfigured \/ last.by # "ok")
            => IF last.arg[1].results_count > 0
               THEN /\ Len(last.ret) = 1
                    /\ Holds(last.ret[1], ToString(last.arg[1].results_count))
               ELSE last.ret = <<NoneFoundText>>

\* the name of the best of the places of the previous answer
BestPriorName == "<name of the best previous place>"

\* C24: a follow-up message that comes after a search answered with places
\* is answered from those places: the request succeeds, its message names the
\* best of them, and no place search call is issued for it.
C24_FollowUpFromCache ==
  (/\ req.endpoint = "chat_search"
   /\ req.msg = FollowUp
   /\ req.prior > 0
   /\ Authorized(req.header)
   /\ req.pc = "done")
    => /\ req.status = 200
       /\ Holds(req.response_message, BestPriorName)
       /\ ~InStages("places")

\* the position of an external call in a chat request
Rank(name) ==
  CASE name = "classify" -> 1 [] name = "extract" -> 2 [] name = "chat" -> 2
    [] name = "geocode" -> 3 [] name = "places" -> 4
    [] name = "synthesize" -> 5

\* C25: within one chat request the external calls are issued in the order
\* classify, then extract, geocode, places, synthesize or chat alone; the
\* branch is chosen before any other stage runs; a place search or a
\* geocoding call comes only after an extraction that produced a Search
\* Request; a conversational request issues no extraction, geocoding, place
\* search or search synthesis call.
C25_StageOrder ==
  req.endpoint = "chat_search"
    => /\ \A i, j \in 1..Len(req.stages) :
            i < j => Rank(req.stages[i]) < Rank(req.stages[j])
       /\ req.pc \in {"extracting", "resolving", "searching", "synthesizing"}
            => req.mode = "search"
       /\ req.pc = "chatting" => req.mode = "chat"
       /\ (InStages("geocode") \/ InStages("places"))
            => /\ InStages("extract")
               /\ req.xreply.kind = "json"
               /\ req.query # EmptyStr
       /\ (req.pc \in {"searching", "synthesizing"} \/ InStages("places"))
            => req.xreply.kind = "json" /\ req.query # EmptyStr
       /\ req.mode = "chat"
            => \A i \in 1..Len(req.stages) :
                 req.stages[i] \in {"classify", "chat"}
       /\ req.mode = "search" => ~InStages("chat")

C25_Witness ==
  /\ req.endpoint = "chat_search"
  /\ req.pc = "done"
  /\ req.stages = <<"classify", "extract", "geocode", "places", "synthesize">>

\* ------------------------------------- claims on the limiter's state
\* C26: the rate limiter holds a timestamp window only for tokens that are
\* currently valid: none for a revoked token, none for a token never issued.
C26_StateOnlyForActiveTokens == DOMAIN token_requests \subseteq DOMAIN tokens

\* the admitted calls of a token whose instants lie in [from, from + width]
AdmittedIn(tok, from, width) ==
  {i \in 1..Len(calls) : /\ calls[i].tok = tok
                         /\ calls[i].ok
                         /\ calls[i].t >= from
                         /\ calls[i].t <= from + width}

\* C27: for every token and every interval shorter than the window, at most
\* `limit` admitted calls of the token fall in the interval, and the stored
\* list never holds more than `limit` instants.
C27_SlidingWindow ==
  \A tok \in LimiterTokens :
    /\ \A from \in 0..MaxTime, width \in 0..(window - 1) :
         Cardinality(AdmittedIn(tok, from, width)) <= limit
    /\ Len(Stored(tok)) <= limit

C27_Witness ==
  \E tok \in LimiterTokens :
    /\ Cardinality(AdmittedIn(tok, 0, MaxTime)) > limit
    /\ \E i, j \in AdmittedIn(tok, 0, MaxTime) :
         calls[j].t - calls[i].t = window

\* C28: a rejected call records nothing: the stored list of its token is
\* what it was before the call, so the instant at which the token is
\* admitted again does not move.
C28_RejectedRecordsNothing ==
  (calls # << >> /\ ~LastCall.ok)
    => /\ Stored(LastCall.tok) = LastCall.before
       /\ Recent(LastCall.tok, now) = SelectSeq(LastCall.before,
                                          LAMBDA t : IsRecent(t, now))

C28_Witness ==
  /\ Len(calls) >= 2
  /\ ~LastCall.ok
  /\ ~calls[Len(calls) - 1].ok
  /\ calls[Len(calls) - 1].tok = LastCall.tok
  /\ LastCall.before # << >>

\* whether the j-th call is admitted, told from the earlier calls of its own
\* token alone
OwnHistoryAdmits(j) ==
  Cardinality({i \in 1..(j - 1) : /\ calls[i].tok = calls[j].tok
                                  /\ calls[i].ok
                                  /\ calls[j].t - calls[i].t < window}) < limit

\* a call of check_rate_limit leaves the entry of every other token as it is
OthersUntouched ==
  Len(calls') = Len(calls) + 1
    => \A b \in LimiterTokens \ {calls'[Len(calls')].tok} :
         /\ (b \in DOMAIN token_requests') = (b \in DOMAIN token_requests)
         /\ b \in DOMAIN token_requests
              => token_requests'[b] = token_requests[b]

\* C29: a call for one token, admitted or rejected, leaves the stored list
\* of every other token unchanged, and whether a call is admitted depends
\* only on the earlier calls of its own token.
C29_PerTokenIsolation ==
  /\ [](\A j \in 1..Len(calls) : calls[j].ok = OwnHistoryAdmits(j))
  /\ [][OthersUntouched]_vars

C29_Witness ==
  /\ Len(calls) = 3
  /\ calls[1].tok = calls[2].tok
  /\ calls[1].ok /\ ~calls[2].ok
  /\ calls[3].tok # calls[1].tok
  /\ calls[3].ok
  /\ calls[3].t = calls[1].t

\* the steps of the middleware: a task enters the handler only with a call
\* admitted and recorded in that step, a rejected call starts no handler,
\* and the end of a handler, failed or not, leaves the stored lists alone
SlotBeforeHandler ==
  /\ \A r \in Tasks :
       (task[r].pc = "idle" /\ task'[r].pc = "handler")
         => /\ Len(calls') = Len(calls) + 1
            /\ task'[r].call = Len(calls')
            /\ calls'[Len(calls')].ok
            /\ token_requests'[calls'[Len(calls')].tok]
                 = Append(Recent(calls'[Len(calls')].tok, now), now)
  /\ (Len(calls') = Len(calls) + 1 /\ ~calls'[Len(calls')].ok)
       => task' = task
  /\ \A r \in Tasks :
       (task[r].pc = "handler" /\ task'[r].pc = "idle")
         => token_requests' = token_requests

\* C30: the slot is consumed at admission, before the handler runs: a task
\* is in the handler only with an admitted call whose instant is stored for
\* as long as it is within the window, it stays stored when the handler
\* fails, and a rejected request never starts the handler.
C30_SlotConsumedAtAdmission ==
  /\ [](\A r \in Tasks :
          task[r].pc = "handler"
            => /\ calls[task[r].call].ok
               /\ now - calls[task[r].call].t < window
                    => \E i \in 1..Len(Stored(calls[task[r].call].tok)) :
                         Stored(calls[task[r].call].tok)[i]
                           = calls[task[r].call].t)
  /\ [][SlotBeforeHandler]_vars

C30_Witness ==
  /\ last.op = "handler"
  /\ ~last.ok
  /\ Len(calls) = 1
  /\ calls[1].ok
  /\ Stored(calls[1].tok) = <<calls[1].t>>
  /\ \A r \in Tasks : task[r].pc = "idle"

====
